---- MODULE Spec2Model ----
(***************************************************************************)
(* PNCounter (src/src/pncounter.rs): a counter that can be incremented and *)
(* decremented, kept as two grow-only counters P (increments) and N        *)
(* (decrements).  The grow-only counter (GCounter over a VClock) is not    *)
(* part of src/; its operations are modelled from section 4.1 of the       *)
(* specification (G* definitions).                                         *)
(***************************************************************************)
EXTENDS Integers, FiniteSets, Sequences, TLC

\* ----------------------------------------------------------------- bounds
\* Largest sequence number an arbitrary (test-built) operation carries.
MaxCounter == 2
\* Most operations one counter issues through inc/dec in SpecLocal.
MaxIssued == 4
\* Most replicas (witnesses) the operations are distributed over in SpecConverge.
MaxReplicas == 2
\* Most distinct operations of one run of SpecOps (each may be re-applied).
MaxOps == 2
\* Longest sequence of operations (duplicates counted) SpecConverge distributes.
MaxLen == 3
\* Most operations the actors of Spec issue altogether.
MaxUpdates == 3

\* Width of u64 / i64, scaled down so that wrap-around is within reach.
Width == 6

\* The actor identifiers (the generic parameter A: Actor).
Actors == {"A", "B"}

\* The replicas of Spec: one per actor, and one that only receives.
Replicas == Actors \cup {"R"}

\* enum Dir { Pos, Neg }
Dir == {"Pos", "Neg"}

Modulus == 2 ^ Width

\* ------------------------------------------------- GCounter (spec 4.1)
\* GCounter::new(): no actor seen, every stored sequence number defaults to 0.
GNew == [x \in Actors |-> 0]

RECURSIVE GSum(_, _)
GSum(g, S) ==
  IF S = {} THEN 0
  ELSE LET x == CHOOSE y \in S : TRUE IN g[x] + GSum(g, S \ {x})

\* GCounter::value(): the sum of the stored sequence numbers, as a u64.
GValue(g) == GSum(g, Actors) % Modulus

\* GCounter::inc(actor): the next dot of the actor; the counter is not changed.
GInc(g, actor) == [actor |-> actor, counter |-> g[actor] + 1]

\* GCounter::apply(dot): stored[actor] = max(stored[actor], dot.counter).
GApply(g, dot) ==
  IF dot.counter > g[dot.actor] THEN [g EXCEPT ![dot.actor] = dot.counter] ELSE g

\* GCounter::merge(other): the per-actor maximum.
GMerge(g, other) ==
  [x \in Actors |-> IF other[x] > g[x] THEN other[x] ELSE g[x]]

\* ------------------------------------------------------------ PNCounter
\* PNCounter::new()
new == [p |-> GNew, n |-> GNew]

\* A plausible slip in inc: the dot is taken from the decrements table.
incFromN(self, actor) == [dot |-> GInc(self.n, actor), dir |-> "Pos"]

\* PNCounter::inc(&self, actor) -> Op
inc(self, actor) == [dot |-> GInc(self.p, actor), dir |-> "Pos"]

\* PNCounter::dec(&self, actor) -> Op
dec(self, actor) == [dot |-> GInc(self.n, actor), dir |-> "Neg"]

\* A plausible slip in apply: both directions routed to P.
applyAllToP(self, op) == [self EXCEPT !.p = GApply(self.p, op.dot)]

\* A plausible slip in apply: the dot's sequence number overwrites the stored one.
applyOverwrite(self, op) ==
  IF op.dir = "Pos"
  THEN [self EXCEPT !.p = [self.p EXCEPT ![op.dot.actor] = op.dot.counter]]
  ELSE [self EXCEPT !.n = [self.n EXCEPT ![op.dot.actor] = op.dot.counter]]

\* A plausible slip in apply: the actor's next dot is applied, not the dot shipped.
applyReissue(self, op) ==
  IF op.dir = "Pos"
  THEN [self EXCEPT !.p = GApply(self.p, GInc(self.p, op.dot.actor))]
  ELSE [self EXCEPT !.n = GApply(self.n, GInc(self.n, op.dot.actor))]

\* A plausible slip in apply: only the dot next after the stored one is accepted.
applyInOrder(self, op) ==
  IF op.dot.counter # (IF op.dir = "Pos" THEN self.p ELSE self.n)[op.dot.actor] + 1
  THEN self
  ELSE IF op.dir = "Pos"
       THEN [self EXCEPT !.p = GApply(self.p, op.dot)]
       ELSE [self EXCEPT !.n = GApply(self.n, op.dot)]

\* impl CmRDT for PNCounter: apply(&mut self, op)
apply(self, op) ==
  IF op.dir = "Pos"
  THEN [self EXCEPT !.p = GApply(self.p, op.dot)]
  ELSE [self EXCEPT !.n = GApply(self.n, op.dot)]

\* A plausible slip in merge: the N half is not merged.
mergeOnlyP(self, other) == [p |-> GMerge(self.p, other.p), n |-> self.n]

\* A plausible slip in merge: other's tables replace self's where other is non-zero.
mergeOverwrite(self, other) ==
  [p |-> [x \in Actors |-> IF other.p[x] > 0 THEN other.p[x] ELSE self.p[x]],
   n |-> [x \in Actors |-> IF other.n[x] > 0 THEN other.n[x] ELSE self.n[x]]]

\* A plausible slip in merge: the halves are crossed.
mergeCrossed(self, other) ==
  [p |-> GMerge(self.p, other.n), n |-> GMerge(self.n, other.p)]

\* A plausible slip in merge: the halves are added, not joined.
mergeAdd(self, other) ==
  [p |-> [x \in Actors |-> self.p[x] + other.p[x]],
   n |-> [x \in Actors |-> self.n[x] + other.n[x]]]

\* impl CvRDT for PNCounter: merge(&mut self, other)
merge(self, other) ==
  [p |-> GMerge(self.p, other.p), n |-> GMerge(self.n, other.n)]

\* A plausible slip in the cast: it goes through a narrower signed type.
asNarrow(x) ==
  LET y == x % (Modulus \div 2)
  IN IF y >= Modulus \div 4 THEN y - Modulus \div 2 ELSE y

\* `x as i64`: the unsigned value reinterpreted in two's complement.
AsI64(x) == IF x >= Modulus \div 2 THEN x - Modulus ELSE x

\* i64 subtraction, wrapping.
SubI64(x, y) == AsI64((x - y) % Modulus)

\* A plausible slip in value: the halves are added.
valueSum(self) == AsI64((AsI64(GValue(self.p)) + AsI64(GValue(self.n))) % Modulus)

\* A plausible slip in value: the halves are subtracted the wrong way round.
valueSwapped(self) == SubI64(AsI64(GValue(self.n)), AsI64(GValue(self.p)))

\* PNCounter::value(&self) -> i64
value(self) == SubI64(AsI64(GValue(self.p)), AsI64(GValue(self.n)))

\* impl Ord for PNCounter: cmp
cmp(self, other) ==
  LET c == value(self)
      oc == value(other)
  IN IF c < oc THEN "Less" ELSE IF c = oc THEN "Equal" ELSE "Greater"

\* impl PartialOrd for PNCounter: partial_cmp, and the `<` it provides
partial_cmp(self, other) == cmp(self, other)

lt(self, other) == partial_cmp(self, other) = "Less"

\* A plausible slip in eq: the derived structural equality.
eqStructural(self, other) == self = other

\* impl PartialEq for PNCounter: eq
eq(self, other) ==
  LET c == value(self)
      oc == value(other)
  IN c = oc

\* tests::build_op: an operation with an arbitrary actor, counter and direction
build_op(actor, counter, dir_choice) ==
  [dot |-> [actor |-> actor, counter |-> counter],
   dir |-> IF dir_choice THEN "Pos" ELSE "Neg"]

\* Every operation build_op can build within the bound.
Ops == {build_op(x, i, b) : x \in Actors, i \in 0..MaxCounter, b \in BOOLEAN}

VARIABLES
  local,        \* SpecLocal: the one counter (`a` of test_basic)
  outstanding,  \* SpecLocal: operations issued by inc/dec and not yet applied
  nInc,         \* SpecLocal: Increase operations issued and applied
  nDec,         \* SpecLocal: Decrease operations issued and applied
  overlap,      \* SpecLocal: an operation was issued while one of the same
                \* actor and direction was still unapplied
  last,         \* SpecLocal: the last call: its kind, its operation and the state before
  prev,         \* SpecLocal: the call before the last: its kind and its operation
  k,            \* SpecOps, SpecConverge: the number of witnesses (`i` of prop_merge_converges)
  witnesses,    \* SpecOps, SpecConverge: the k counters the operations are applied to
  seen,         \* SpecOps: per witness, the set of operations it has applied
  stale,        \* SpecOps: the witnesses that applied an operation not above the stored number
  nApplied,     \* SpecConverge: the length of the operation sequence so far
  single,       \* SpecConverge: one counter that applies every operation
  merged,       \* SpecConverge: the fresh counter the witnesses are merged into
  mi,           \* SpecConverge: how many witnesses are merged into `merged` so far
  ctr,          \* Spec: the counter of each replica
  pending,      \* Spec: per actor, the operation issued and not yet applied locally
  net,          \* Spec: the operations shipped to the other replicas
  step,         \* Spec: the last call: its kind, the replica, the merged replica
  subject,      \* SpecValue: the counter value() is called on
  reported      \* SpecValue: what the call of value() did

varsLocal == <<local, outstanding, nInc, nDec, overlap, last, prev>>
varsOps == <<k, witnesses, seen, stale, nApplied, single, merged, mi>>
varsSys == <<ctr, pending, net, step>>
varsValue == <<subject, reported>>
vars == <<varsLocal, varsOps, varsSys, varsValue>>

NoOp == [dot |-> [actor |-> "A", counter |-> 0], dir |-> "Pos"]

\* The values the variables of a specification keep while another one runs.
LocalStart ==
  /\ local = new
  /\ outstanding = <<>>
  /\ nInc = 0
  /\ nDec = 0
  /\ overlap = FALSE
  /\ last = [kind |-> "new", op |-> NoOp, pre |-> new, fresh |-> FALSE]
  /\ prev = [kind |-> "new", op |-> NoOp]

OpsStart(i) ==
  /\ k = i
  /\ witnesses = [w \in 1..i |-> new]
  /\ seen = [w \in 1..i |-> {}]
  /\ stale = {}
  /\ nApplied = 0
  /\ single = new
  /\ merged = new
  /\ mi = 0

SysStart ==
  /\ ctr = [r \in Replicas |-> new]
  /\ pending = [x \in Actors |-> <<>>]
  /\ net = {}
  /\ step = [kind |-> "new", self |-> "R", other |-> "R", mutual |-> FALSE]

ValueStart ==
  /\ subject = new
  /\ reported = [done |-> FALSE, panicked |-> FALSE, value |-> 0]

\* -------------------------------------------------- SpecLocal: one counter
\* A caller owning one counter: it issues operations with inc/dec and applies
\* each issued operation exactly once, at any later time.
InitLocal == LocalStart /\ OpsStart(1) /\ SysStart /\ ValueStart

Issue(op) ==
  /\ Len(outstanding) + nInc + nDec < MaxIssued
  /\ outstanding' = Append(outstanding, op)
  /\ overlap' = (overlap \/ \E i \in 1..Len(outstanding) :
                    /\ outstanding[i].dot.actor = op.dot.actor
                    /\ outstanding[i].dir = op.dir)
  /\ prev' = [kind |-> last.kind, op |-> last.op]
  /\ UNCHANGED <<nInc, nDec>>
  /\ UNCHANGED <<varsOps, varsSys, varsValue>>

\* A plausible slip in inc: the operation is applied as it is issued.
IncCallApplies(actor) ==
  /\ Issue(inc(local, actor))
  /\ last' = [kind |-> "inc", op |-> inc(local, actor), pre |-> local, fresh |-> FALSE]
  /\ local' = apply(local, inc(local, actor))

\* let op = a.inc(actor);
IncCall(actor) ==
  /\ Issue(inc(local, actor))
  /\ last' = [kind |-> "inc", op |-> inc(local, actor), pre |-> local, fresh |-> FALSE]
  /\ UNCHANGED local

\* A plausible slip in dec: the operation is applied as it is issued.
DecCallApplies(actor) ==
  /\ Issue(dec(local, actor))
  /\ last' = [kind |-> "dec", op |-> dec(local, actor), pre |-> local, fresh |-> FALSE]
  /\ local' = apply(local, dec(local, actor))

\* let op = a.dec(actor);
DecCall(actor) ==
  /\ Issue(dec(local, actor))
  /\ last' = [kind |-> "dec", op |-> dec(local, actor), pre |-> local, fresh |-> FALSE]
  /\ UNCHANGED local

\* a.apply(&op) for the i-th outstanding operation, which is thereby used up.
ApplyCall(i) ==
  /\ i \in 1..Len(outstanding)
  /\ local' = apply(local, outstanding[i])
  /\ outstanding' = SubSeq(outstanding, 1, i - 1) \o SubSeq(outstanding, i + 1, Len(outstanding))
  /\ nInc' = nInc + (IF outstanding[i].dir = "Pos" THEN 1 ELSE 0)
  /\ nDec' = nDec + (IF outstanding[i].dir = "Neg" THEN 1 ELSE 0)
  /\ last' = [kind |-> "apply", op |-> outstanding[i], pre |-> local,
              fresh |-> (last.kind \in {"inc", "dec"} /\ i = Len(outstanding))]
  /\ prev' = [kind |-> last.kind, op |-> last.op]
  /\ UNCHANGED overlap
  /\ UNCHANGED <<varsOps, varsSys, varsValue>>

NextLocal ==
  \/ \E actor \in Actors : IncCall(actor)
  \/ \E actor \in Actors : DecCall(actor)
  \/ \E i \in 1..MaxIssued : ApplyCall(i)

SpecLocal == InitLocal /\ [][NextLocal]_vars

\* ---------------------------------- SpecOps: operations applied in any order
\* Two replicas that start empty and apply operations built by build_op (any
\* actor, sequence number and direction), in any order and any number of times.
InitOps == LocalStart /\ OpsStart(2) /\ SysStart /\ ValueStart

Log == UNION {seen[w] : w \in 1..k}

\* The operation's sequence number is not above the one stored for its actor
\* and direction (a duplicate, or an operation overtaken by a later one).
IsStale(self, op) ==
  op.dot.counter <= (IF op.dir = "Pos" THEN self.p ELSE self.n)[op.dot.actor]

\* witness.apply(op)
ApplyOp(w, op) ==
  /\ w \in 1..k
  /\ op \in Log \/ Cardinality(Log) < MaxOps
  /\ witnesses' = [witnesses EXCEPT ![w] = apply(@, op)]
  /\ seen' = [seen EXCEPT ![w] = @ \cup {op}]
  /\ stale' = IF IsStale(witnesses[w], op) THEN stale \cup {w} ELSE stale
  /\ UNCHANGED <<k, nApplied, single, merged, mi>>
  /\ UNCHANGED <<varsLocal, varsSys, varsValue>>

NextOps == \E w \in 1..k, op \in Ops : ApplyOp(w, op)

SpecOps == InitOps /\ [][NextOps]_vars

\* ------------------------- SpecConverge: distribute a sequence, then merge
\* prop_merge_converges, with the distribution left free: each operation of the
\* sequence is applied to a witness chosen arbitrarily, and to `single`, the
\* one replica of the distribution over one replica; then the witnesses are
\* merged one by one into a fresh counter.
InitConverge == LocalStart /\ SysStart /\ ValueStart /\ \E i \in 1..MaxReplicas : OpsStart(i)

\* witness.apply(op) for the next operation of the sequence
Distribute(w, op) ==
  /\ mi = 0
  /\ nApplied < MaxLen
  /\ w \in 1..k
  /\ witnesses' = [witnesses EXCEPT ![w] = apply(@, op)]
  /\ single' = apply(single, op)
  /\ nApplied' = nApplied + 1
  /\ UNCHANGED <<k, seen, stale, merged, mi>>
  /\ UNCHANGED <<varsLocal, varsSys, varsValue>>

\* merged.merge(&witness), for the next witness of `for witness in witnesses.iter()`
MergeNext ==
  /\ mi < k
  /\ merged' = merge(merged, witnesses[mi + 1])
  /\ mi' = mi + 1
  /\ UNCHANGED <<k, witnesses, seen, stale, nApplied, single>>
  /\ UNCHANGED <<varsLocal, varsSys, varsValue>>

NextConverge ==
  \/ \E w \in 1..MaxReplicas, op \in Ops : Distribute(w, op)
  \/ MergeNext

SpecConverge == InitConverge /\ [][NextConverge]_vars

\* ------------------------------------------------ Spec: replicas in a system
\* Each actor owns a replica, issues operations for itself there and applies
\* each one locally before it issues the next; applied operations are shipped
\* and may reach any replica any number of times in any order; any replica may
\* merge the present state of any replica.
Init == LocalStart /\ OpsStart(1) /\ SysStart /\ ValueStart

Issued == Cardinality(net) + Cardinality({x \in Actors : pending[x] # <<>>})

\* let op = ctr.inc(actor);  on the actor's own replica
IncAt(x) ==
  /\ pending[x] = <<>>
  /\ Issued < MaxUpdates
  /\ pending' = [pending EXCEPT ![x] = <<inc(ctr[x], x)>>]
  /\ step' = [kind |-> "inc", self |-> x, other |-> x, mutual |-> FALSE]
  /\ UNCHANGED <<ctr, net>>
  /\ UNCHANGED <<varsLocal, varsOps, varsValue>>

\* let op = ctr.dec(actor);  on the actor's own replica
DecAt(x) ==
  /\ pending[x] = <<>>
  /\ Issued < MaxUpdates
  /\ pending' = [pending EXCEPT ![x] = <<dec(ctr[x], x)>>]
  /\ step' = [kind |-> "dec", self |-> x, other |-> x, mutual |-> FALSE]
  /\ UNCHANGED <<ctr, net>>
  /\ UNCHANGED <<varsLocal, varsOps, varsValue>>

\* ctr.apply(&op) of the operation just issued; the operation is then shipped
ApplyLocal(x) ==
  /\ pending[x] # <<>>
  /\ ctr' = [ctr EXCEPT ![x] = apply(@, pending[x][1])]
  /\ net' = net \cup {pending[x][1]}
  /\ pending' = [pending EXCEPT ![x] = <<>>]
  /\ step' = [kind |-> "apply", self |-> x, other |-> x, mutual |-> FALSE]
  /\ UNCHANGED <<varsLocal, varsOps, varsValue>>

\* ctr.apply(&op) of a shipped operation, at any replica
Deliver(r, op) ==
  /\ op \in net
  /\ ctr' = [ctr EXCEPT ![r] = apply(@, op)]
  /\ step' = [kind |-> "deliver", self |-> r, other |-> op.dot.actor, mutual |-> FALSE]
  /\ UNCHANGED <<pending, net>>
  /\ UNCHANGED <<varsLocal, varsOps, varsValue>>

\* ctr[r].merge(&ctr[o]); o = r merges a clone
Merge(r, o) ==
  /\ ctr' = [ctr EXCEPT ![r] = merge(@, ctr[o])]
  /\ step' = [kind |-> "merge", self |-> r, other |-> o,
              mutual |-> (step.kind = "merge" /\ step.self = o /\ step.other = r /\ o # r)]
  /\ UNCHANGED <<pending, net>>
  /\ UNCHANGED <<varsLocal, varsOps, varsValue>>

Next ==
  \/ \E x \in Actors : IncAt(x)
  \/ \E x \in Actors : DecAt(x)
  \/ \E x \in Actors : ApplyLocal(x)
  \/ \E r \in Replicas : \E op \in net : Deliver(r, op)
  \/ \E r \in Replicas, o \in Replicas : Merge(r, o)

Spec == Init /\ [][Next]_vars

\* ------------------------------------------ FairSpec: Spec under fair delivery
\* ctr.apply(&op) of a shipped operation the replica has not incorporated yet
DeliverNew(r) == \E op \in net : Deliver(r, op) /\ ctr'[r] # ctr[r]

\* Spec, where an actor does apply the operation it issued and a shipped
\* operation that a replica lacks is not withheld from it for ever.
FairSpec ==
  /\ Spec
  /\ \A x \in Actors : WF_vars(ApplyLocal(x))
  /\ \A r \in Replicas : WF_vars(DeliverNew(r))

\* ------------------------------------------- SpecValue: value() near the limits
\* value() called once on a counter whose tables hold arbitrary stored
\* numbers: any u64 for actor A, up to MaxCounter for the other actors.
Half == Modulus \div 2

WideTables ==
  {[x \in Actors |-> IF x = "A" THEN i ELSE j] : i \in 0..(Modulus - 1), j \in 0..MaxCounter}

InitValue ==
  /\ LocalStart /\ OpsStart(1) /\ SysStart
  /\ subject \in [p : WideTables, n : WideTables]
  /\ reported = [done |-> FALSE, panicked |-> FALSE, value |-> 0]

\* The i64 subtraction of value() leaves the range of i64: a build with
\* overflow checks panics there, a build without them wraps.
Overflows(self) ==
  LET d == AsI64(GValue(self.p)) - AsI64(GValue(self.n))
  IN d < -Half \/ d >= Half

\* subject.value() returns
ValueReturns ==
  /\ ~reported.done
  /\ reported' = [done |-> TRUE, panicked |-> FALSE, value |-> value(subject)]
  /\ UNCHANGED subject
  /\ UNCHANGED <<varsLocal, varsOps, varsSys>>

\* subject.value() panics on the overflow of its subtraction
ValuePanics ==
  /\ ~reported.done
  /\ Overflows(subject)
  /\ reported' = [done |-> TRUE, panicked |-> TRUE, value |-> 0]
  /\ UNCHANGED subject
  /\ UNCHANGED <<varsLocal, varsOps, varsSys>>

NextValue == ValueReturns \/ ValuePanics

SpecValue == InitValue /\ [][NextValue]_vars

\* ------------------------------------------------ claims checked on SpecLocal

\* C7 as stated: once every operation issued through inc/dec has been applied
\* exactly once, value() is the number of increments minus the number of
\* decrements.
C7_ValueAsStated ==
  outstanding = <<>> => value(local) = nInc - nDec

\* C7 amended: once every operation issued through inc/dec has been applied
\* exactly once, and no operation was issued while an earlier operation of the
\* same actor and direction was still unapplied, value() is the number of
\* increments minus the number of decrements.
C7_ValueCorrect ==
  (outstanding = <<>> /\ ~overlap) => value(local) = nInc - nDec

C7_Witness ==
  /\ outstanding = <<>>
  /\ ~overlap
  /\ nInc = 2
  /\ nDec = 2
  /\ local.p["A"] = 1
  /\ local.p["B"] = 1
  /\ local.n["B"] = 2
  /\ last.kind = "apply"
  /\ ~last.fresh

\* C8: a new counter has value() 0, and applying an operation right after
\* inc created it raises value() by exactly 1, right after dec created it
\* lowers value() by exactly 1, whatever the actor and the state before.
C8_IssueThenApply ==
  /\ last.kind = "new" => value(local) = 0
  /\ (last.kind = "apply" /\ last.fresh) =>
        value(local) = value(last.pre) + (IF last.op.dir = "Pos" THEN 1 ELSE -1)

\* Actor A: inc, inc, dec, inc, each applied at once, ends at value() 2.
C8_Witness ==
  /\ last.kind = "apply"
  /\ last.fresh
  /\ last.op = [dot |-> [actor |-> "A", counter |-> 3], dir |-> "Pos"]
  /\ local.p = [x \in Actors |-> IF x = "A" THEN 3 ELSE 0]
  /\ local.n = [x \in Actors |-> IF x = "A" THEN 1 ELSE 0]
  /\ value(last.pre) = 1
  /\ value(local) = 2

\* C9: a call of inc or dec leaves the increments table and the decrements
\* table, and so value(), as they were before the call.
C9_IssueIsPure ==
  last.kind \in {"inc", "dec"} =>
     /\ local.p = last.pre.p
     /\ local.n = last.pre.n
     /\ value(local) = value(last.pre)

C9_Witness ==
  /\ last.kind = "dec"
  /\ local.p["A"] = 2
  /\ local.n["A"] = 1
  /\ last.op = [dot |-> [actor |-> "A", counter |-> 2], dir |-> "Neg"]
  /\ local = last.pre
  /\ apply(local, last.op) # local

\* C11: in every reachable state value() is negative exactly when the
\* decrements total exceeds the increments total; three decrements of one
\* actor, each applied as it is issued, and no increment give value() -3.
C11_NegativeValues ==
  /\ value(local) < 0 <=> GValue(local.n) > GValue(local.p)
  /\ (/\ nInc = 0
      /\ nDec = 3
      /\ outstanding = <<>>
      /\ ~overlap
      /\ \E x \in Actors : local.n[x] = 3) => value(local) = -3

C11_Witness ==
  /\ nInc = 0
  /\ nDec = 3
  /\ outstanding = <<>>
  /\ ~overlap
  /\ last.kind = "apply"
  /\ last.fresh
  /\ local.p = GNew
  /\ local.n = [x \in Actors |-> IF x = "A" THEN 3 ELSE 0]
  /\ value(last.pre) = -2
  /\ value(local) = -3

\* C16: two back-to-back inc calls (or two back-to-back dec calls) for the
\* same actor with no apply in between return operations with the same
\* sequence number, the stored number plus 1; applying both advances the
\* counter by one step only, the second apply being a no-op.
C16_IssueWithoutApply ==
  /\ (/\ last.kind \in {"inc", "dec"}
      /\ prev.kind = last.kind
      /\ prev.op.dot.actor = last.op.dot.actor) =>
        LET stored == IF last.kind = "inc" THEN local.p ELSE local.n
            once == apply(local, prev.op)
            both == apply(once, last.op)
        IN /\ last.op.dot.counter = prev.op.dot.counter
           /\ last.op.dot.counter = stored[last.op.dot.actor] + 1
           /\ both = once
           /\ value(both) = value(local) + (IF last.kind = "inc" THEN 1 ELSE -1)
  /\ (/\ last.kind = "apply"
      /\ prev.kind = "apply"
      /\ last.op = prev.op) => local = last.pre

\* Actor B: dec, dec, and both operations applied; the counter is at -1.
C16_Witness ==
  /\ last.kind = "apply"
  /\ prev.kind = "apply"
  /\ last.op = build_op("B", 1, FALSE)
  /\ prev.op = last.op
  /\ overlap
  /\ nInc = 0
  /\ nDec = 2
  /\ outstanding = <<>>
  /\ local = last.pre
  /\ local.n["B"] = 1
  /\ value(local) = -1

\* -------------------------------------------- claims checked on SpecConverge

\* C1: when the operations of a sequence have been applied each to an
\* arbitrarily chosen one of k replicas and the k replicas have been merged
\* into a fresh counter, the merged counter's value() is the value() of the
\* distribution over one replica (`single`); so it is the same for every k
\* and every distribution of that sequence.
C1_MergeConverges ==
  mi = k => value(merged) = value(single)

C1_Witness ==
  /\ mi = k
  /\ k = 2
  /\ nApplied = 3
  /\ witnesses[1].p["A"] = 2
  /\ witnesses[2].p["A"] = 1
  /\ witnesses[2].n["B"] = 1
  /\ witnesses[1].n["B"] = 0
  /\ value(merged) = 1

\* ------------------------------------------------- claims checked on SpecOps

\* C5: applying any operation twice to the state of a replica gives the state
\* that applying it once gives.
C5_ApplyIdempotent ==
  \A w \in 1..k : \A op \in Ops :
     apply(apply(witnesses[w], op), op) = apply(witnesses[w], op)

\* A replica that has re-applied an operation, and an operation that would
\* still change it.
C5_Witness ==
  \E w \in 1..k :
     /\ w \in stale
     /\ witnesses[w].p["A"] = 1
     /\ seen[w] = {build_op("A", 1, TRUE)}
     /\ apply(witnesses[w], build_op("A", 2, TRUE)) # witnesses[w]
     /\ apply(witnesses[w], build_op("A", 1, TRUE)) = witnesses[w]

\* C6: two replicas that started empty and have applied the same set of
\* operations, in whatever order and however often, hold the same tables and
\* so the same value().
C6_SameOpsSameState ==
  \A v \in 1..k : \A w \in 1..k :
     seen[v] = seen[w] =>
        /\ witnesses[v] = witnesses[w]
        /\ value(witnesses[v]) = value(witnesses[w])

\* Replica 1 applied (A,2) before (A,1); replica 2 applied them in rising order.
C6_Witness ==
  /\ seen[1] = {build_op("A", 1, TRUE), build_op("A", 2, TRUE)}
  /\ seen[2] = seen[1]
  /\ 1 \in stale
  /\ 2 \notin stale
  /\ witnesses[1] = witnesses[2]
  /\ witnesses[1].p["A"] = 2

\* ---------------------------------------------------- claims checked on Spec

\* C2: for the states a and b of any two replicas, merging b into a and
\* merging a into b give the same tables; and two replicas that have just
\* merged each other's state hold the same state, so the same value().
C2_MergeCommutative ==
  /\ \A r \in Replicas : \A o \in Replicas :
        merge(ctr[r], ctr[o]) = merge(ctr[o], ctr[r])
  /\ (step.kind = "merge" /\ step.mutual) =>
        /\ ctr[step.self] = ctr[step.other]
        /\ value(ctr[step.self]) = value(ctr[step.other])

\* Replica A applied an increment of A, replica B an increment and a decrement
\* of B; they merged each other's state and both report 1.
C2_Witness ==
  /\ step.kind = "merge"
  /\ step.mutual
  /\ {step.self, step.other} = {"A", "B"}
  /\ ctr["A"].p = [x \in Actors |-> 1]
  /\ ctr["A"].n = [x \in Actors |-> IF x = "B" THEN 1 ELSE 0]
  /\ value(ctr["A"]) = 1
  /\ value(ctr["B"]) = 1

\* C3: for the states a, b and c of any three replicas, merging c into
\* (a merged with b) gives the same tables as merging (b merged with c) into a.
C3_MergeAssociative ==
  \A r \in Replicas : \A o \in Replicas : \A q \in Replicas :
     merge(merge(ctr[r], ctr[o]), ctr[q]) = merge(ctr[r], merge(ctr[o], ctr[q]))

\* Three different states, none of which holds all that the three hold together.
C3_Witness ==
  LET all == merge(merge(ctr["A"], ctr["B"]), ctr["R"])
  IN /\ ctr["A"] # ctr["B"]
     /\ ctr["A"] # ctr["R"]
     /\ ctr["B"] # ctr["R"]
     /\ ctr["R"] # new
     /\ all \notin {ctr["A"], ctr["B"], ctr["R"]}
     /\ merge(ctr["A"], ctr["R"]) # all
     /\ merge(ctr["B"], ctr["R"]) # all
     /\ merge(ctr["A"], ctr["R"]) # ctr["A"]
     /\ step.kind = "merge"
     /\ step.self = "R"

\* C4: merging a copy of a replica's state into it changes nothing, and
\* merging in again a state that was already merged in changes nothing.
C4_MergeIdempotent ==
  /\ \A r \in Replicas : merge(ctr[r], ctr[r]) = ctr[r]
  /\ \A r \in Replicas : \A o \in Replicas :
        merge(merge(ctr[r], ctr[o]), ctr[o]) = merge(ctr[r], ctr[o])
  /\ step.kind = "merge" => merge(ctr[step.self], ctr[step.other]) = ctr[step.self]

\* B's state has just been merged into A's, which it changed and does not equal.
C4_Witness ==
  /\ step.kind = "merge"
  /\ step.self = "A"
  /\ step.other = "B"
  /\ ctr["A"] # ctr["B"]
  /\ ctr["B"] # new
  /\ ctr["A"].p["A"] = 1
  /\ ctr["A"].n["B"] = 1
  /\ merge(ctr["B"], ctr["A"]) # ctr["B"]

\* C10: two counters compare equal exactly when their value()s are equal and
\* one is less than the other exactly when its value() is less, whatever their
\* tables.
C10_CompareByValue ==
  \A r \in Replicas : \A o \in Replicas :
     /\ eq(ctr[r], ctr[o]) <=> (value(ctr[r]) = value(ctr[o]))
     /\ lt(ctr[r], ctr[o]) <=> (value(ctr[r]) < value(ctr[o]))

\* A and B hold different tables with the same value(), and R's value() is less.
C10_Witness ==
  /\ ctr["A"] # ctr["B"]
  /\ ctr["A"].p["A"] = 1
  /\ ctr["B"].p["B"] = 1
  /\ ctr["A"].p["B"] = 0
  /\ eq(ctr["A"], ctr["B"])
  /\ value(ctr["A"]) = 1
  /\ lt(ctr["R"], ctr["A"])
  /\ ~lt(ctr["A"], ctr["R"])
  /\ value(ctr["R"]) = -1

\* ------------------------------------------------ claims checked on FairSpec

\* The replica holds every shipped operation (directly or through a merge).
Incorporated(r) == \A op \in net : IsStale(ctr[r], op)

\* Every operation issued is applied at its origin and held by every replica.
AllIncorporated ==
  /\ \A x \in Actors : pending[x] = <<>>
  /\ \A r \in Replicas : Incorporated(r)

\* The operations of direction d issued so far, all of them applied at their origin.
IssuedOf(d) == Cardinality({op \in net : op.dir = d})

\* C12: when actors issue on their own replica and apply before they issue
\* again, and states and operations are exchanged in any order with any
\* duplication, then once every replica has incorporated every update all
\* replicas report the same value(), the number of increments issued minus the
\* number of decrements issued; under fair delivery that state is reached and
\* kept once no more operations are issued.
C12_EventualTotal ==
  /\ [](AllIncorporated =>
          \A r \in Replicas : value(ctr[r]) = IssuedOf("Pos") - IssuedOf("Neg"))
  /\ <>[]AllIncorporated

C12_Witness ==
  /\ AllIncorporated
  /\ net = {build_op("A", 1, TRUE), build_op("A", 2, TRUE), build_op("B", 1, FALSE)}
  /\ \A r \in Replicas : ctr[r] = ctr["R"]
  /\ ctr["R"].p["A"] = 2
  /\ ctr["R"].n["B"] = 1
  /\ value(ctr["R"]) = 1
  /\ step.kind = "deliver"
  /\ step.self = "R"

\* ---------------------------------------------------- claims checked on Spec (2)

\* C13: in every sequence of apply and merge calls on a replica, the stored
\* sequence number of every actor in the increments table and in the
\* decrements table never decreases from one state to the next, so neither
\* total shrinks.
C13_MonotoneGrowth ==
  [][\A r \in Replicas :
       /\ \A x \in Actors : /\ ctr'[r].p[x] >= ctr[r].p[x]
                            /\ ctr'[r].n[x] >= ctr[r].n[x]
       /\ GValue(ctr'[r].p) >= GValue(ctr[r].p)
       /\ GValue(ctr'[r].n) >= GValue(ctr[r].n)]_vars

\* Replica R holds A's second increment and B's decrement, has A's first
\* increment (overtaken) on offer, and has just merged a replica that is behind.
C13_Witness ==
  /\ ctr["R"].p["A"] = 2
  /\ ctr["R"].n["B"] = 1
  /\ build_op("A", 1, TRUE) \in net
  /\ ctr["B"].p["A"] = 1
  /\ step.kind = "merge"
  /\ step.self = "R"
  /\ step.other = "B"
  /\ merge(ctr["R"], ctr["B"]) = ctr["R"]
  /\ apply(ctr["R"], build_op("A", 1, TRUE)) = ctr["R"]

\* ------------------------------------------------- claims checked on SpecOps (2)

\* C14: applying an Increase (Pos) operation leaves the decrements table
\* unchanged and applying a Decrease (Neg) operation leaves the increments
\* table unchanged; in the touched table only the entry of the operation's
\* actor may change.
C14_ApplyFrame ==
  \A w \in 1..k : \A op \in Ops :
    LET before == witnesses[w]
        after == apply(before, op)
    IN /\ op.dir = "Pos" =>
            /\ after.n = before.n
            /\ \A x \in Actors \ {op.dot.actor} : after.p[x] = before.p[x]
       /\ op.dir = "Neg" =>
            /\ after.p = before.p
            /\ \A x \in Actors \ {op.dot.actor} : after.n[x] = before.n[x]

\* A replica that holds an increment of A and a decrement of B, reached by
\* applying them, on which further operations of either direction take effect.
C14_Witness ==
  \E w \in 1..k :
    /\ seen[w] = {build_op("A", 1, TRUE), build_op("B", 1, FALSE)}
    /\ witnesses[w].p = [x \in Actors |-> IF x = "A" THEN 1 ELSE 0]
    /\ witnesses[w].n = [x \in Actors |-> IF x = "B" THEN 1 ELSE 0]
    /\ apply(witnesses[w], build_op("B", 2, FALSE)).n["B"] = 2
    /\ apply(witnesses[w], build_op("B", 2, TRUE)).p["B"] = 2

\* ------------------------------------------- claims checked on SpecConverge (2)

\* The operations that carry the stored numbers of a counter: an Increase
\* per actor of its increments table, a Decrease per actor of its decrements
\* table (an actor is in a table once its stored number is above 0).
OpsOf(other) ==
  {build_op(x, other.p[x], TRUE) : x \in {y \in Actors : other.p[y] > 0}}
    \cup {build_op(x, other.n[x], FALSE) : x \in {y \in Actors : other.n[y] > 0}}

\* self.apply(op) for every op of S
RECURSIVE applyAll(_, _)
applyAll(self, S) ==
  IF S = {} THEN self
  ELSE LET op == CHOOSE o \in S : TRUE IN applyAll(apply(self, op), S \ {op})

\* C15: for all counters a and b, merging b into a yields the same state as
\* applying to a, for every actor in b's increments table, an Increase
\* carrying (actor, b's stored increment number), and for every actor in b's
\* decrements table, a Decrease carrying (actor, b's stored decrement number).
C15_MergeAsApplies ==
  /\ \A w \in 1..k :
       /\ merge(merged, witnesses[w]) = applyAll(merged, OpsOf(witnesses[w]))
       /\ merge(witnesses[w], single) = applyAll(witnesses[w], OpsOf(single))
       /\ \A v \in 1..k :
            merge(witnesses[v], witnesses[w]) = applyAll(witnesses[v], OpsOf(witnesses[w]))
  /\ mi = k => merged = applyAll(new, UNION {OpsOf(witnesses[w]) : w \in 1..k})

\* Two witnesses that each hold what the other lacks, in both tables; the
\* first is merged, the second is about to be.
C15_Witness ==
  /\ k = 2
  /\ mi = 1
  /\ merged = witnesses[1]
  /\ witnesses[1].p["A"] = 2
  /\ witnesses[1].n["B"] = 0
  /\ witnesses[2].p["A"] = 1
  /\ witnesses[2].n["B"] = 1
  /\ merge(merged, witnesses[2]) # merged
  /\ merge(merged, witnesses[2]) # witnesses[2]
  /\ Cardinality(OpsOf(witnesses[2])) = 2

\* The operations of S that no operation of S of the same actor and
\* direction outnumbers.
Highest(S) ==
  {op \in S : \A o \in S :
     (o.dot.actor = op.dot.actor /\ o.dir = op.dir) => o.dot.counter <= op.dot.counter}

\* C17: applying an operation whose sequence number is not above the number
\* stored for its actor and direction is a no-op, and applying only the
\* highest-numbered operation of an actor and direction yields the same
\* state as applying all lower-numbered ones first.
C17_StaleAndOmitted ==
  /\ \A w \in 1..k : \A op \in Ops :
       IsStale(witnesses[w], op) => apply(witnesses[w], op) = witnesses[w]
  /\ \A w \in 1..k : \A lo \in Ops, hi \in Ops :
       (lo.dot.actor = hi.dot.actor /\ lo.dir = hi.dir /\ lo.dot.counter <= hi.dot.counter) =>
          apply(apply(witnesses[w], lo), hi) = apply(witnesses[w], hi)
  /\ \A v \in 1..k : \A w \in 1..k :
       Highest(seen[v]) = Highest(seen[w]) => witnesses[v] = witnesses[w]

\* Witness 1 applied only A's second decrement; witness 2 applied the first,
\* then the second, then the first again (a no-op); they hold the same state.
C17_Witness ==
  /\ seen[1] = {build_op("A", 2, FALSE)}
  /\ seen[2] = {build_op("A", 1, FALSE), build_op("A", 2, FALSE)}
  /\ stale = {2}
  /\ witnesses[1] = witnesses[2]
  /\ witnesses[1].n["A"] = 2
  /\ IsStale(witnesses[2], build_op("A", 1, FALSE))

\* Every stored number of `other` is matched or exceeded in `self`.
Contains(self, other) ==
  \A x \in Actors : other.p[x] <= self.p[x] /\ other.n[x] <= self.n[x]

\* The counters of a run of SpecConverge that a counter may be merged with.
Mergeable == {witnesses[w] : w \in 1..k} \cup {merged, single}

\* C18 as stated: for all counters a, b and c, if a == b (equal derived
\* values) then a after merging c and b after merging c still compare equal.
C18_EqCompatibleAsStated ==
  \A v \in 1..k : \A w \in v..k :
    eq(witnesses[v], witnesses[w]) =>
      \A c \in Mergeable :
        eq(merge(witnesses[v], c), merge(witnesses[w], c))

\* C18 amended: for all counters a, b and c, if a == b and, beyond that, a
\* and b hold the same tables or both already contain every stored number of
\* c, then a after merging c and b after merging c still compare equal.
C18_EqCompatibleCorrect ==
  \A v \in 1..k : \A w \in v..k :
    eq(witnesses[v], witnesses[w]) =>
      \A c \in Mergeable :
        (\/ witnesses[v] = witnesses[w]
         \/ Contains(witnesses[v], c) /\ Contains(witnesses[w], c)) =>
           eq(merge(witnesses[v], c), merge(witnesses[w], c))

\* Two witnesses of equal value and different tables that both contain the
\* counter merged so far, which is not empty.
C18_Witness ==
  /\ k = 2
  /\ mi = 1
  /\ merged # new
  /\ witnesses[1] # witnesses[2]
  /\ witnesses[2].n["A"] = 1
  /\ eq(witnesses[1], witnesses[2])
  /\ Contains(witnesses[1], merged)
  /\ Contains(witnesses[2], merged)
  /\ eq(merge(witnesses[1], merged), merge(witnesses[2], merged))

\* ------------------------------------------------ claims checked on SpecValue

\* C19: value() does not wrap: whenever the increments total P and the
\* decrements total N are each below 2^(Width - 1), the signed result of
\* casting both to signed and subtracting is the mathematical difference
\* P - N, with no overflow in the casts or in the subtraction.
C19_ValueDoesNotWrap ==
  LET P == GSum(subject.p, Actors)
      N == GSum(subject.n, Actors)
  IN (P < Half /\ N < Half) =>
       /\ AsI64(GValue(subject.p)) = P
       /\ AsI64(GValue(subject.n)) = N
       /\ ~Overflows(subject)
       /\ value(subject) = P - N
       /\ reported.done => ~reported.panicked /\ reported.value = P - N

\* Both totals one below the limit or near it, held by two actors, and
\* value() has returned the negative difference.
C19_Witness ==
  /\ reported.done
  /\ subject.p = [x \in Actors |-> IF x = "A" THEN 1 ELSE 2]
  /\ subject.n = [x \in Actors |-> IF x = "A" THEN Half - 2 ELSE 1]
  /\ GSum(subject.n, Actors) = Half - 1
  /\ reported.value = 4 - Half

====
